---- MODULE Spec2Model ----
(***************************************************************************)
(* Model of api/ai.js: the serverless request handler that forwards a chat *)
(* message to the upstream chat-completion API with bounded retries, of    *)
(* chat.js: the browser widget that posts to it, and of the values they    *)
(* work on.  A JavaScript string is a sequence of one-character strings (a *)
(* character outside ASCII is written by its code point, "U+2019"); a      *)
(* JavaScript value is a record tagged with its type.                      *)
(***************************************************************************)
EXTENDS Integers, Sequences, FiniteSets, TLC

\* ------------------------------------------------------------------ bounds
\* invocations of the handler that exist side by side
MaxInvocations == 2
\* whitespace characters put before and after a generated message
MaxPad == 1
\* characters by which a generated message exceeds MAX_INPUT_CHARS
MaxOver == 1
\* longest generated short message core
MaxShort == 2

\* requests the widget sends
MaxSubmits == 2
\* submit events with nothing to send
MaxBlankSubmits == 1
\* clicks on "clear conversation"
MaxClears == 1

\* --------------------------------------------------------------- constants
MAX_INPUT_CHARS == 4000
tries == 2
BACKOFF_BASE == 600
EXCERPT_CHARS == 200

METHOD_NOT_ALLOWED ==
  <<"M", "e", "t", "h", "o", "d", " ", "N", "o", "t", " ", "A", "l", "l",
    "o", "w", "e", "d">>

GUIDANCE ==
  <<"P", "l", "e", "a", "s", "e", " ", "t", "y", "p", "e", " ", "y", "o",
    "u", "r", " ", "j", "o", "b", " ", "d", "e", "t", "a", "i", "l", "s",
    " ", "t", "o", " ", "g", "e", "t", " ", "a", "n", " ", "e", "s", "t",
    "i", "m", "a", "t", "e", ".">>

AUTH_ERROR ==
  <<"A", "u", "t", "h", " ", "e", "r", "r", "o", "r", " ", "w", "i", "t",
    "h", " ", "t", "h", "e", " ", "A", "I", " ", "p", "r", "o", "v", "i",
    "d", "e", "r", ".", " ", "(", "O", "w", "n", "e", "r", ":", " ", "v",
    "e", "r", "i", "f", "y", " ", "O", "P", "E", "N", "A", "I", "_", "A",
    "P", "I", "_", "K", "E", "Y", " ", "i", "n", " ", "V", "e", "r", "c",
    "e", "l", " ", "e", "n", "v", ")", ".">>

RATE_LIMITED ==
  <<"W", "e", "U+2019", "r", "e", " ", "t", "e", "m", "p", "o", "r", "a",
    "r", "i", "l", "y", " ", "o", "u", "t", " ", "o", "f", " ", "A", "I",
    " ", "c", "r", "e", "d", "i", "t", "s", " ", "o", "r", " ", "r", "a",
    "t", "e", "-", "l", "i", "m", "i", "t", "e", "d", ".", " ", "P", "l",
    "e", "a", "s", "e", " ", "t", "r", "y", " ", "a", "g", "a", "i", "n",
    " ", "s", "h", "o", "r", "t", "l", "y", ".">>

SERVICE_BUSY ==
  <<"A", "I", " ", "s", "e", "r", "v", "i", "c", "e", " ", "i", "s", " ",
    "b", "u", "s", "y", " ", "r", "i", "g", "h", "t", " ", "n", "o", "w",
    ".", " ", "P", "l", "e", "a", "s", "e", " ", "t", "r", "y", " ", "a",
    "g", "a", "i", "n", " ", "i", "n", " ", "a", " ", "m", "o", "m", "e",
    "n", "t", ".">>

UPSTREAM_PREFIX ==
  <<"U", "p", "s", "t", "r", "e", "a", "m", " ", "e", "r", "r", "o", "r",
    " ", "(">>

UPSTREAM_SEP ==
  <<")", ":", " ">>

NO_REPLY ==
  <<"N", "o", " ", "r", "e", "p", "l", "y", " ", "f", "r", "o", "m", " ",
    "m", "o", "d", "e", "l", ".">>

SERVER_ERROR ==
  <<"S", "e", "r", "v", "e", "r", " ", "e", "r", "r", "o", "r", ".", " ",
    "P", "l", "e", "a", "s", "e", " ", "t", "r", "y", " ", "a", "g", "a",
    "i", "n", ".">>

\* ------------------------------------------------------ JavaScript values
Undefined == [t |-> "undefined"]
Null == [t |-> "null"]
Str(s) == [t |-> "string", s |-> s]
Num(n) == [t |-> "number", n |-> n]
Bool(b) == [t |-> "boolean", b |-> b]
Arr(a) == [t |-> "array", a |-> a]
Obj(o) == [t |-> "object", o |-> o]
EmptyObj == Obj([k \in {} |-> Undefined])
Obj1(k, v) == Obj([x \in {k} |-> v])
Obj2(k1, v1, k2, v2) == Obj([x \in {k1, k2} |-> IF x = k1 THEN v1 ELSE v2])

Nullish(v) == v.t \in {"undefined", "null"}

\* ToBoolean, as used by !x and x || y
Truthy(v) ==
  CASE v.t = "string" -> Len(v.s) > 0
    [] v.t = "number" -> v.n # 0
    [] v.t = "boolean" -> v.b
    [] v.t \in {"array", "object"} -> TRUE
    [] OTHER -> FALSE

typeof(v) ==
  CASE v.t \in {"null", "array", "object"} -> "object"
    [] OTHER -> v.t

\* v.k for a value v that is neither null nor undefined
GetProp(v, k) ==
  IF v.t = "object" /\ k \in DOMAIN v.o THEN v.o[k] ELSE Undefined

Digits == <<"0", "1", "2", "3", "4", "5", "6", "7", "8", "9">>

\* v[n] (n < 10) for a value v that is neither null nor undefined
GetIndex(v, n) ==
  CASE v.t = "array" -> IF n + 1 <= Len(v.a) THEN v.a[n + 1] ELSE Undefined
    [] v.t = "string" -> IF n + 1 <= Len(v.s) THEN Str(<<v.s[n + 1]>>) ELSE Undefined
    [] v.t = "object" -> GetProp(v, Digits[n + 1])
    [] OTHER -> Undefined

\* v?.k and v?.[n]
OptProp(v, k) == IF Nullish(v) THEN Undefined ELSE GetProp(v, k)
OptIndex(v, n) == IF Nullish(v) THEN Undefined ELSE GetIndex(v, n)

\* ----------------------------------------------------------------- strings
\* the code units String.prototype.trim strips: the WhiteSpace and
\* LineTerminator productions of the language (a character outside ASCII is
\* written as its code point)
WhiteSpace ==
  {"\t", "\n", "U+000B", "\f", "\r", " ", "U+00A0", "U+1680",
   "U+2000", "U+2001", "U+2002", "U+2003", "U+2004", "U+2005", "U+2006",
   "U+2007", "U+2008", "U+2009", "U+200A", "U+2028", "U+2029", "U+202F",
   "U+205F", "U+3000", "U+FEFF"}

\* a format character that trim leaves in place
ZERO_WIDTH_SPACE == "U+200B"

IsBlank(s) == \A i \in 1..Len(s) : s[i] \in WhiteSpace

\* String.prototype.trim
Trim(s) ==
  IF IsBlank(s) THEN <<>>
  ELSE LET first == CHOOSE i \in 1..Len(s) :
                      s[i] \notin WhiteSpace /\ \A j \in 1..(i - 1) : s[j] \in WhiteSpace
           last == CHOOSE i \in 1..Len(s) :
                      s[i] \notin WhiteSpace /\ \A j \in (i + 1)..Len(s) : s[j] \in WhiteSpace
       IN SubSeq(s, first, last)

\* String.prototype.slice(0, n) for n >= 0
SliceTo(s, n) == SubSeq(s, 1, IF n < Len(s) THEN n ELSE Len(s))

\* the decimal text of a non-negative integer, as a template literal prints it
RECURSIVE NumStr(_)
NumStr(n) == IF n < 10 THEN <<Digits[n + 1]>>
             ELSE NumStr(n \div 10) \o <<Digits[(n % 10) + 1]>>

\* the fixed system prompt; its text plays no part in any decision
SYSTEM_PROMPT == <<"SYSTEM_PROMPT">>

\* ------------------------------------------------------------ friendlyError
friendlyError(status, text) ==
  IF status = 401 THEN AUTH_ERROR
  ELSE IF status = 429 THEN RATE_LIMITED
  ELSE IF status >= 500 THEN SERVICE_BUSY
  ELSE UPSTREAM_PREFIX \o NumStr(status) \o UPSTREAM_SEP \o SliceTo(text, EXCERPT_CHARS)

\* ----------------------------------------------------------- fetchWithRetry
\* Response.ok
Ok(r) == r.status >= 200 /\ r.status <= 299

\* variant: every 4xx and 5xx status is retried
Retriable_every4xx(status) == status >= 400 /\ status < 600

\* the statuses fetchWithRetry retries
Retriable(status) == status = 429 \/ (status >= 500 /\ status < 600)

\* variant: the backoff does not double
Backoff_flat(attempt) == BACKOFF_BASE

\* the sleep before the retry that follows attempt number attempt
Backoff(attempt) == BACKOFF_BASE * 2^attempt

\* variant: the loop stops one attempt early
LoopContinues_strict(a) == a < tries

\* variant: the loop allows one attempt more
LoopContinues_extra(a) == a <= tries + 1

\* the condition of the while loop
LoopContinues(a) == a <= tries

NoError == "null"
FALLBACK_ERROR == "Error: Network error contacting AI."

\* throw lastErr || new Error('Network error contacting AI.')
Exhausted(err) == IF err # NoError THEN err ELSE FALLBACK_ERROR

\* what text() and json() reject with when the body cannot be read
BODY_ERROR == "TypeError: terminated"

\* ------------------------------------------------------------------ handler
\* variant: only GET is turned away
MethodAllowed_notGet(method) == method # "GET"

MethodAllowed(method) == method = "POST"

\* const { message } = req.body || {}
MessageOf(body) == GetProp(IF Truthy(body) THEN body ELSE EmptyObj, "message")

\* variant: the typeof test is missing
InvalidMessage_falsyOnly(message) == ~Truthy(message)

\* !message || typeof message !== 'string'
InvalidMessage(message) == ~Truthy(message) \/ typeof(message) # "string"

\* variant: the message is cut before it is trimmed
Trimmed_sliceFirst(message) == Trim(SliceTo(message.s, MAX_INPUT_CHARS))

\* message.trim().slice(0, MAX_INPUT_CHARS)
Trimmed(message) == SliceTo(Trim(message.s), MAX_INPUT_CHARS)

Payload(content) ==
  [model |-> "MODEL", temperature |-> "TEMP", max_tokens |-> "MAX_TOKENS",
   messages |-> <<[role |-> "system", content |-> SYSTEM_PROMPT],
                  [role |-> "user", content |-> content]>>]

\* the options of the upstream call; body is the payload that is serialised
FetchOpts(payload) == [t |-> "opts", method |-> "POST", body |-> payload]

\* data?.choices?.[0]?.message?.content
ContentOf(data) ==
  OptProp(OptProp(OptIndex(OptProp(data, "choices"), 0), "message"), "content")

\* content?.trim() throws a TypeError when content has no trim method
TrimThrows(content) == ~Nullish(content) /\ content.t # "string"

\* variant: the fallback string is missing
ExtractReply_noFallback(data) ==
  LET content == ContentOf(data)
  IN IF Nullish(content) THEN <<>> ELSE Trim(content.s)

\* data?.choices?.[0]?.message?.content?.trim() || 'No reply from model.'
ExtractReply(data) ==
  LET content == ContentOf(data)
      trimmed == IF Nullish(content) THEN Undefined ELSE Str(Trim(content.s))
  IN IF Truthy(trimmed) THEN trimmed.s ELSE NO_REPLY

\* data?.usage || null
ExtractUsage(data) ==
  LET usage == OptProp(data, "usage") IN IF Truthy(usage) THEN usage ELSE Null

\* what res has sent: status, headers set before, and the body
MethodNotAllowed ==
  [status |-> 405, headers |-> {<<"Allow", "POST">>}, json |-> FALSE,
   body |-> Str(METHOD_NOT_ALLOWED)]
JsonReply(reply) ==
  [status |-> 200, headers |-> {}, json |-> TRUE, body |-> Obj1("reply", Str(reply))]
JsonReplyUsage(reply, usage) ==
  [status |-> 200, headers |-> {}, json |-> TRUE,
   body |-> Obj2("reply", Str(reply), "usage", usage)]

\* ------------------------------------------------------------------- state
Invocations == 1..MaxInvocations
None == [t |-> "none"]

VARIABLES
  pc,        \* where each invocation stands: idle, fetch, wait, text, json, done
  req,       \* the request of each invocation
  opts,      \* handler: the options built for the upstream call
  attempt,   \* fetchWithRetry: attempt
  lastErr,   \* fetchWithRetry: lastErr
  resp,      \* handler: the response fetchWithRetry returned
  sent,      \* the responses res has sent, in order
  calls,     \* the upstream calls made (their options), in order
  outcomes,  \* what each upstream call produced, in order
  sleeps,    \* the waits performed (ms), in order
  thrown     \* the exceptions the handler's catch block received, in order

\* ------------------------------------------------------------ widget state
GREETING ==
  <<"H", "i", "!", " ", "I", "U+2019", "m", " ", "y", "o", "u", "r", " ",
    "e", "s", "t", "i", "m", "a", "t", "o", "r", ".", " ", "T", "e", "l",
    "l", " ", "m", "e", " ", "w", "h", "a", "t", " ", "y", "o", "u", " ",
    "n", "e", "e", "d", " ", "d", "o", "n", "e", " ", "(", "e", ".", "g",
    ".", ",", " ", "U+201C", "I", "n", "s", "t", "a", "l", "l", " ", "6",
    " ", "r", "e", "c", "e", "s", "s", "e", "d", " ", "l", "i", "g", "h",
    "t", "s", " ", "i", "n", " ", "l", "i", "v", "i", "n", "g", " ", "r",
    "o", "o", "m", ";", " ", "9", " ", "f", "t", " ", "c", "e", "i", "l",
    "i", "n", "g", "U+201D", ")", ".", " ", "I", "U+2019", "l", "l", " ",
    "s", "u", "g", "g", "e", "s", "t", " ", "s", "c", "o", "p", "e", ",",
    " ", "t", "i", "m", "e", "l", "i", "n", "e", ",", " ", "a", "n", "d",
    " ", "a", " ", "b", "a", "l", "l", "p", "a", "r", "k", ".">>

ERROR_PREFIX ==
  <<"E", "r", "r", "o", "r", " ", "(">>

ERROR_SEP ==
  <<")", ":", " ">>

REQUEST_FAILED ==
  <<"R", "e", "q", "u", "e", "s", "t", " ", "f", "a", "i", "l", "e", "d">>

NO_REPLY_WIDGET ==
  <<"N", "o", " ", "r", "e", "p", "l", "y", ".">>

NETWORK_ERROR ==
  <<"N", "e", "t", "w", "o", "r", "k", " ", "e", "r", "r", "o", "r", " ",
    "c", "o", "n", "t", "a", "c", "t", "i", "n", "g", " ", "A", "I", ".",
    " ", "P", "l", "e", "a", "s", "e", " ", "t", "r", "y", " ", "a", "g",
    "a", "i", "n", ".">>


VARIABLES
  dom,           \* rows: every row element created; box: the children of #chat-box
  inputValue,    \* input.value
  inputDisabled, \* input.disabled
  submits,       \* the runs of the submit handler that sent a request, in order
  blanks,        \* the submit events that returned without sending, each with
                 \* the number of requests in flight when it happened
  clears,        \* the clicks on clear
  cleared        \* a clear click has happened and no message was sent since

wvars == <<dom, inputValue, inputDisabled, submits, blanks, clears, cleared>>

\* a row element: its role class, whether its bubble holds the typing
\* indicator, its bubble's text, and how often replaceTyping was applied
Row(role, typing, text) ==
  [role |-> role, typing |-> typing, text |-> text, replaced |-> 0]

\* append a new row to the box
AppendRow(d, row) ==
  [rows |-> Append(d.rows, row), box |-> Append(d.box, Len(d.rows) + 1)]

addMessage(d, text, role) == AppendRow(d, Row(role, FALSE, text))

addTyping(d) == AppendRow(d, Row("bot", TRUE, <<>>))

replaceTyping(d, row, text) ==
  [d EXCEPT !.rows[row] = [@ EXCEPT !.typing = FALSE, !.text = text,
                                    !.replaced = @ + 1]]

seedGreeting(d) == addMessage(d, GREETING, "bot")

\* the page after the script has run: the box holds the greeting
WidgetInit ==
  /\ dom = seedGreeting([rows |-> <<>>, box |-> <<>>])
  /\ inputValue = <<>>
  /\ inputDisabled = FALSE
  /\ submits = <<>>
  /\ blanks = <<>>
  /\ clears = 0
  /\ cleared = FALSE

svars == <<pc, req, opts, attempt, lastErr, resp, sent, calls, outcomes, sleeps, thrown>>

vars == <<svars, wvars>>

Init ==
  /\ pc = [i \in Invocations |-> "idle"]
  /\ req = [i \in Invocations |-> None]
  /\ opts = [i \in Invocations |-> None]
  /\ attempt = [i \in Invocations |-> 0]
  /\ lastErr = [i \in Invocations |-> NoError]
  /\ resp = [i \in Invocations |-> None]
  /\ sent = [i \in Invocations |-> <<>>]
  /\ calls = [i \in Invocations |-> <<>>]
  /\ outcomes = [i \in Invocations |-> <<>>]
  /\ sleeps = [i \in Invocations |-> <<>>]
  /\ thrown = [i \in Invocations |-> <<>>]
  /\ WidgetInit

\* variant: the catch block answers with status 500
Catch_status500(i, err) ==
  /\ thrown' = [thrown EXCEPT ![i] = Append(@, err)]
  /\ sent' = [sent EXCEPT ![i] = Append(@, [JsonReply(SERVER_ERROR) EXCEPT !.status = 500])]
  /\ pc' = [pc EXCEPT ![i] = "done"]

\* the handler's catch block
Catch(i, err) ==
  /\ thrown' = [thrown EXCEPT ![i] = Append(@, err)]
  /\ sent' = [sent EXCEPT ![i] = Append(@, JsonReply(SERVER_ERROR))]
  /\ pc' = [pc EXCEPT ![i] = "done"]

\* handler, from its entry to its first await: method check, message check,
\* payload, and fetchWithRetry up to its first fetch
Invoke(i, method, body) ==
  /\ pc[i] = "idle"
  /\ req' = [req EXCEPT ![i] = [t |-> "request", method |-> method, body |-> body]]
  /\ IF ~MethodAllowed(method)
     THEN /\ sent' = [sent EXCEPT ![i] = Append(@, MethodNotAllowed)]
          /\ pc' = [pc EXCEPT ![i] = "done"]
          /\ UNCHANGED <<opts, attempt, lastErr, calls, thrown>>
     ELSE IF InvalidMessage(MessageOf(body))
     THEN /\ sent' = [sent EXCEPT ![i] = Append(@, JsonReply(GUIDANCE))]
          /\ pc' = [pc EXCEPT ![i] = "done"]
          /\ UNCHANGED <<opts, attempt, lastErr, calls, thrown>>
     ELSE IF MessageOf(body).t # "string"
     THEN \* message.trim is not a function: TypeError, caught by the handler
          /\ Catch(i, "TypeError")
          /\ UNCHANGED <<opts, attempt, lastErr, calls>>
     ELSE LET o == FetchOpts(Payload(Trimmed(MessageOf(body)))) IN
          /\ opts' = [opts EXCEPT ![i] = o]
          /\ attempt' = [attempt EXCEPT ![i] = 0]
          /\ lastErr' = [lastErr EXCEPT ![i] = NoError]
          /\ calls' = [calls EXCEPT ![i] = Append(@, o)]
          /\ pc' = [pc EXCEPT ![i] = "fetch"]
          /\ UNCHANGED <<sent, thrown>>
  /\ UNCHANGED <<resp, outcomes, sleeps>>

\* fetch resolves with response r: return it, or back off when retriable
FetchResolve(i, r) ==
  /\ pc[i] = "fetch"
  /\ outcomes' = [outcomes EXCEPT ![i] = Append(@, r)]
  /\ IF Ok(r)
     THEN /\ resp' = [resp EXCEPT ![i] = r]
          /\ pc' = [pc EXCEPT ![i] = "json"]
          /\ UNCHANGED sleeps
     ELSE IF Retriable(r.status)
     THEN /\ sleeps' = [sleeps EXCEPT ![i] = Append(@, Backoff(attempt[i]))]
          /\ pc' = [pc EXCEPT ![i] = "wait"]
          /\ UNCHANGED resp
     ELSE /\ resp' = [resp EXCEPT ![i] = r]
          /\ pc' = [pc EXCEPT ![i] = "text"]
          /\ UNCHANGED sleeps
  /\ UNCHANGED <<req, opts, attempt, lastErr, sent, calls, thrown>>

\* fetch rejects with network error e: remember it and back off
FetchReject(i, e) ==
  /\ pc[i] = "fetch"
  /\ outcomes' = [outcomes EXCEPT ![i] = Append(@, [t |-> "throw", err |-> e])]
  /\ lastErr' = [lastErr EXCEPT ![i] = e]
  /\ sleeps' = [sleeps EXCEPT ![i] = Append(@, Backoff(attempt[i]))]
  /\ pc' = [pc EXCEPT ![i] = "wait"]
  /\ UNCHANGED <<req, opts, attempt, resp, sent, calls, thrown>>

\* variant: attempt is one counter shared by all invocations
WaitResolve_sharedAttempt(i) ==
  /\ pc[i] = "wait"
  /\ attempt' = [j \in Invocations |-> attempt[j] + 1]
  /\ IF LoopContinues(attempt[i] + 1)
     THEN /\ calls' = [calls EXCEPT ![i] = Append(@, opts[i])]
          /\ pc' = [pc EXCEPT ![i] = "fetch"]
          /\ UNCHANGED <<sent, thrown>>
     ELSE /\ Catch(i, Exhausted(lastErr[i]))
          /\ UNCHANGED calls
  /\ UNCHANGED <<req, opts, lastErr, resp, outcomes, sleeps>>

\* the wait is over: attempt++, then the next fetch, or the throw that ends
\* the loop and lands in the handler's catch block
WaitResolve(i) ==
  /\ pc[i] = "wait"
  /\ attempt' = [attempt EXCEPT ![i] = @ + 1]
  /\ IF LoopContinues(attempt[i] + 1)
     THEN /\ calls' = [calls EXCEPT ![i] = Append(@, opts[i])]
          /\ pc' = [pc EXCEPT ![i] = "fetch"]
          /\ UNCHANGED <<sent, thrown>>
     ELSE /\ Catch(i, Exhausted(lastErr[i]))
          /\ UNCHANGED calls
  /\ UNCHANGED <<req, opts, lastErr, resp, outcomes, sleeps>>

\* resp.text() settles: a body that cannot be read rejects and lands in the
\* catch block, otherwise the status is classified and the reply sent
TextResolve(i) ==
  /\ pc[i] = "text"
  /\ IF resp[i].bodyFails THEN Catch(i, BODY_ERROR)
     ELSE /\ sent' = [sent EXCEPT ![i] =
                        Append(@, JsonReply(friendlyError(resp[i].status, resp[i].text)))]
          /\ pc' = [pc EXCEPT ![i] = "done"]
          /\ UNCHANGED thrown
  /\ UNCHANGED <<req, opts, attempt, lastErr, resp, calls, outcomes, sleeps>>

\* resp.json() settles: an unreadable body, a parse failure or a TypeError
\* goes to the catch block, otherwise reply and usage are sent
JsonResolve(i) ==
  /\ pc[i] = "json"
  /\ LET data == resp[i].json IN
     IF resp[i].bodyFails THEN Catch(i, BODY_ERROR)
     ELSE IF data.t = "SyntaxError" THEN Catch(i, "SyntaxError")
     ELSE IF TrimThrows(ContentOf(data)) THEN Catch(i, "TypeError")
     ELSE /\ sent' = [sent EXCEPT ![i] =
                        Append(@, JsonReplyUsage(ExtractReply(data), ExtractUsage(data)))]
          /\ pc' = [pc EXCEPT ![i] = "done"]
          /\ UNCHANGED thrown
  /\ UNCHANGED <<req, opts, attempt, lastErr, resp, calls, outcomes, sleeps>>

\* ------------------------------------------------------------------ inputs
\* n whitespace characters
PadChars == <<" ", "\r", "U+00A0", "\n", "U+3000", "\f", "U+FEFF", "\t">>
Pad(n) == [i \in 1..n |-> PadChars[((i - 1) % Len(PadChars)) + 1]]

\* n characters with inner spaces that start and end with a letter
Core(n) == [i \in 1..n |-> IF i = n THEN "z" ELSE IF i % 7 = 3 THEN " " ELSE "a"]

ShortMessages ==
  {Pad(l) \o Core(n) \o Pad(r) : l \in 0..MaxPad, r \in 0..MaxPad, n \in 0..MaxShort}

\* messages padded with whitespace outside " \t\n", and one that only looks
\* blank
UnicodeMessages ==
  {<<"\r">>, <<"U+00A0">>, <<"U+2028", "U+000B">>,
   <<"U+3000">> \o Core(2) \o <<"\r", "U+FEFF">>,
   <<ZERO_WIDTH_SPACE>>, <<" ", ZERO_WIDTH_SPACE, " ">>}
LongMessages ==
  {Pad(l) \o Core(MAX_INPUT_CHARS + d) \o Pad(l) : l \in 0..MaxPad, d \in (-1)..MaxOver}
MessageStrings == ShortMessages \cup UnicodeMessages \cup LongMessages

NonStringMessages ==
  {Null, Num(0), Num(5), Bool(TRUE), Bool(FALSE), EmptyObj, Arr(<<>>),
   Arr(<<Str(<<"h", "i">>)>>)}

Methods == {"POST", "GET", "DELETE"}

Bodies ==
  {Undefined, Null, EmptyObj, Str(<<"h", "i">>), Num(0),
   Obj1("text", Str(<<"h", "i">>))}
  \cup {Obj1("message", m) : m \in NonStringMessages}
  \cup {Obj1("message", Str(s)) : s \in MessageStrings}

\* a response whose body arrives: text is what text() resolves with and json
\* what json() parses out of it
Response(status, text, json) ==
  [t |-> "response", status |-> status, text |-> text, json |-> json,
   bodyFails |-> FALSE]
SyntaxErr == [t |-> "SyntaxError"]

\* a response whose headers arrive and whose body stream then breaks, so
\* that text() and json() reject
BrokenResponse(status) ==
  [t |-> "response", status |-> status, text |-> <<>>, json |-> SyntaxErr,
   bodyFails |-> TRUE]

\* an upstream error body of n characters
ErrorText(n) == [i \in 1..n |-> IF i = n THEN "!" ELSE "x"]
ErrorTexts == {ErrorText(n) : n \in {0, EXCERPT_CHARS, EXCERPT_CHARS + MaxOver}}

OkStatuses == {200, 299}
RetriableStatuses == {429, 500, 599}
TerminalStatuses == {300, 400, 401, 403, 600}

REPLY_TEXT == <<"S", "c", "o", "p", "e", ":", " ", "2", "h">>
USAGE == Obj1("total_tokens", Num(42))

Choice(message) == Obj1("choices", Arr(<<Obj1("message", message)>>))
Completion(content) == Choice(Obj1("content", content))
CompletionUsage(content, usage) ==
  Obj2("choices", Arr(<<Obj1("message", Obj1("content", content))>>), "usage", usage)

\* parsed bodies of successful responses
Datas ==
  {Null, EmptyObj, Str(REPLY_TEXT), Obj1("choices", Null), Obj1("choices", Arr(<<>>)),
   Obj1("choices", Arr(<<EmptyObj>>)), Obj1("choices", Str(REPLY_TEXT)),
   Choice(Null), Choice(EmptyObj), Choice(Str(REPLY_TEXT)),
   Completion(Null), Completion(Str(<<>>)), Completion(Str(Pad(8))),
   Completion(Str(REPLY_TEXT)), Completion(Num(5)), Completion(Num(0)),
   Completion(Arr(<<>>)), Completion(Str(<<ZERO_WIDTH_SPACE>>)),
   CompletionUsage(Str(Pad(3) \o REPLY_TEXT \o Pad(5)), USAGE),
   CompletionUsage(Str(REPLY_TEXT), Num(0)),
   CompletionUsage(Null, USAGE)}

Responses ==
  {Response(200, <<>>, d) : d \in Datas \cup {SyntaxErr}}
  \cup {Response(s, <<>>, CompletionUsage(Str(REPLY_TEXT), USAGE)) : s \in OkStatuses}
  \cup {Response(s, ErrorText(3), SyntaxErr) : s \in RetriableStatuses}
  \cup {Response(s, x, SyntaxErr) : s \in TerminalStatuses, x \in ErrorTexts}
  \cup {BrokenResponse(s) : s \in {200, 401, 404}}

NetErrors == {"TypeError: fetch failed", "AbortError"}

\* ------------------------------------------------------------ specification
\* one invocation at a time
Sequential == {1}

Next ==
  /\ \E i \in Sequential :
       \/ \E method \in Methods, body \in Bodies : Invoke(i, method, body)
       \/ \E r \in Responses : FetchResolve(i, r)
       \/ \E e \in NetErrors : FetchReject(i, e)
       \/ WaitResolve(i)
       \/ TextResolve(i)
       \/ JsonResolve(i)
  /\ UNCHANGED wvars

Spec == Init /\ [][Next]_vars

\* inputs of the interleaved invocations
ConcMethods == {"POST", "GET"}
ConcBodies == {Obj1("message", Str(Pad(1) \o Core(2))), Obj1("message", Num(5))}
ConcResponses ==
  {Response(200, <<>>, Completion(Str(REPLY_TEXT))),
   Response(429, ErrorText(3), SyntaxErr),
   Response(401, ErrorText(3), SyntaxErr),
   BrokenResponse(403)}
ConcErrors == {"TypeError: fetch failed"}

\* all invocations run interleaved, each suspended at its own awaits
NextConc ==
  /\ \E i \in Invocations :
       \/ \E method \in ConcMethods, body \in ConcBodies : Invoke(i, method, body)
       \/ \E r \in ConcResponses : FetchResolve(i, r)
       \/ \E e \in ConcErrors : FetchReject(i, e)
       \/ WaitResolve(i)
       \/ TextResolve(i)
       \/ JsonResolve(i)
  /\ UNCHANGED wvars

SpecConc == Init /\ [][NextConc]_vars

\* every upstream call settles and every timer fires
SpecFair == Spec /\ WF_vars(Next)

\* ---------------------------------------------------------- widget events
\* the outcome of a conversion that throws
TypeErr == [t |-> "TypeError"]

\* String(v): the string the conversion gives, or TypeErr when it throws. A
\* string is itself, a number its decimal text, an array its elements joined
\* by commas. An object parsed from JSON converts through toString and
\* valueOf: an own toString is never callable and the inherited valueOf
\* gives back the object, so the conversion throws; without an own toString
\* the inherited one gives "[object Object]".
RECURSIVE ConversionThrows(_)
ConversionThrows(v) ==
  CASE v.t = "object" -> "toString" \in DOMAIN v.o
    [] v.t = "array" ->
         \E n \in 1..Len(v.a) : ~Nullish(v.a[n]) /\ ConversionThrows(v.a[n])
    [] OTHER -> FALSE

\* the characters String(v) gives when the conversion does not throw
RECURSIVE StringText(_), JoinText(_)
StringText(v) ==
  CASE v.t = "string" -> v.s
    [] v.t = "number" -> IF v.n < 0 THEN <<"-">> \o NumStr(-v.n) ELSE NumStr(v.n)
    [] v.t = "boolean" -> IF v.b THEN <<"t", "r", "u", "e">>
                          ELSE <<"f", "a", "l", "s", "e">>
    [] v.t = "array" -> JoinText(v.a)
    [] v.t = "object" -> <<"[", "o", "b", "j", "e", "c", "t", " ",
                           "O", "b", "j", "e", "c", "t", "]">>
    [] v.t = "null" -> <<"n", "u", "l", "l">>
    [] OTHER -> <<"u", "n", "d", "e", "f", "i", "n", "e", "d">>
JoinText(a) ==
  IF Len(a) = 0 THEN <<>>
  ELSE LET e == a[Len(a)]
           last == IF Nullish(e) THEN <<>> ELSE StringText(e)
       IN IF Len(a) = 1 THEN last
          ELSE JoinText(SubSeq(a, 1, Len(a) - 1)) \o <<",">> \o last

StringOf(v) == IF ConversionThrows(v) THEN TypeErr ELSE Str(StringText(v))

\* Array.prototype.join with ",": null and undefined elements are empty, and
\* an element whose conversion throws ends the join
Join(a) == StringOf(Arr(a))

\* bubble.textContent = v: what the row shows afterwards, or TypeErr when the
\* conversion throws; null and undefined show nothing, any other value its
\* string conversion
ToText(v) == IF Nullish(v) THEN Str(<<>>) ELSE StringOf(v)

\* the number of requests sent and not yet answered to the end
InFlight == Cardinality({k \in 1..Len(submits) : submits[k].pc # "done"})

\* the user edits the input field, which a disabled field does not allow
Type(v) ==
  /\ ~inputDisabled
  /\ inputValue' = v
  /\ UNCHANGED <<dom, inputDisabled, submits, blanks, clears, cleared>>

\* variant: the box is not emptied
Clear_keepRows ==
  /\ clears < MaxClears
  /\ clears' = clears + 1
  /\ dom' = seedGreeting(dom)
  /\ cleared' = TRUE
  /\ UNCHANGED <<inputValue, inputDisabled, submits, blanks>>

\* click on clear: empty the box and seed the greeting
Clear ==
  /\ clears < MaxClears
  /\ clears' = clears + 1
  /\ dom' = seedGreeting([dom EXCEPT !.box = <<>>])
  /\ cleared' = TRUE
  /\ UNCHANGED <<inputValue, inputDisabled, submits, blanks>>

\* variant: input.value is not cleared
Submit_keepValue ==
  LET text == Trim(inputValue) IN
  IF Len(text) = 0
  THEN /\ Len(blanks) < MaxBlankSubmits
       /\ blanks' = Append(blanks, InFlight)
       /\ UNCHANGED <<dom, inputValue, inputDisabled, submits, clears, cleared>>
  ELSE /\ Len(submits) < MaxSubmits
       /\ inputDisabled' = TRUE
       /\ dom' = addTyping(addMessage(dom, text, "user"))
       /\ submits' = Append(submits, [pc |-> "fetch", message |-> text,
                                      thinking |-> Len(dom.rows) + 2, r |-> None])
       /\ cleared' = FALSE
       /\ UNCHANGED <<inputValue, blanks, clears>>

\* submit event, up to the await of fetch: nothing for a blank input, else
\* lock the input, show the message and the typing row, post the request
Submit ==
  LET text == Trim(inputValue) IN
  IF Len(text) = 0
  THEN /\ Len(blanks) < MaxBlankSubmits
       /\ blanks' = Append(blanks, InFlight)
       /\ UNCHANGED <<dom, inputValue, inputDisabled, submits, clears, cleared>>
  ELSE /\ Len(submits) < MaxSubmits
       /\ inputDisabled' = TRUE
       /\ inputValue' = <<>>
       /\ dom' = addTyping(addMessage(dom, text, "user"))
       /\ submits' = Append(submits, [pc |-> "fetch", message |-> text,
                                      thinking |-> Len(dom.rows) + 2, r |-> None])
       /\ cleared' = FALSE
       /\ UNCHANGED <<blanks, clears>>

\* variant: the input stays locked
Complete_keepLocked(k, text) ==
  /\ dom' = replaceTyping(dom, submits[k].thinking, text)
  /\ submits' = [submits EXCEPT ![k].pc = "done"]
  /\ UNCHANGED <<inputValue, inputDisabled, blanks, clears, cleared>>

\* the end of a run of the submit handler: the typing row gets its text and
\* the finally block unlocks the input
Complete(k, text) ==
  /\ dom' = replaceTyping(dom, submits[k].thinking, text)
  /\ inputDisabled' = FALSE
  /\ submits' = [submits EXCEPT ![k].pc = "done"]
  /\ UNCHANGED <<inputValue, blanks, clears, cleared>>

\* fetch('/api/ai') resolves with response r: next await is r.text() for a
\* non-ok response and r.json() otherwise
WidgetFetchResolve(k, r) ==
  /\ submits[k].pc = "fetch"
  /\ submits' = [submits EXCEPT ![k].pc = IF Ok(r) THEN "json" ELSE "text", ![k].r = r]
  /\ UNCHANGED <<dom, inputValue, inputDisabled, blanks, clears, cleared>>

\* fetch('/api/ai') rejects: the catch block
WidgetFetchReject(k) ==
  /\ submits[k].pc = "fetch"
  /\ Complete(k, NETWORK_ERROR)

\* r.text() settles for a non-ok response: a body that cannot be read
\* rejects and lands in the catch block, otherwise the error row is shown
WidgetTextResolve(k) ==
  /\ submits[k].pc = "text"
  /\ LET errText == submits[k].r.text IN
     IF submits[k].r.bodyFails THEN Complete(k, NETWORK_ERROR)
     ELSE Complete(k, ERROR_PREFIX \o NumStr(submits[k].r.status) \o ERROR_SEP
                      \o (IF Len(errText) > 0 THEN errText ELSE REQUEST_FAILED))

\* r.json() settles: an unreadable body, a parse failure, data.reply of
\* null, or a reply whose string conversion throws, lands in the catch
\* block; otherwise data.reply || 'No reply.' is shown
WidgetJsonResolve(k) ==
  /\ submits[k].pc = "json"
  /\ LET data == submits[k].r.json IN
     IF submits[k].r.bodyFails \/ data.t = "SyntaxError" \/ Nullish(data)
     THEN Complete(k, NETWORK_ERROR)
     ELSE LET reply == GetProp(data, "reply")
              shown == ToText(IF Truthy(reply) THEN reply ELSE Str(NO_REPLY_WIDGET))
          IN Complete(k, IF shown.t = "TypeError" THEN NETWORK_ERROR ELSE shown.s)

\* what the user may have typed
InputTexts ==
  {<<>>, <<" ", "U+00A0">>, <<"U+3000">> \o Core(2) \o <<"\r", "U+FEFF">>}

\* parsed bodies of ok responses to the widget
WidgetDatas ==
  {Obj2("reply", Str(REPLY_TEXT), "usage", Null), Obj1("reply", Str(<<>>)),
   Obj1("reply", Arr(<<Str(<<"o", "k">>), Num(-5), Null, EmptyObj, Bool(TRUE)>>)),
   Obj1("reply", Arr(<<Str(<<"a">>), Arr(<<Obj1("toString", Null)>>)>>)),
   EmptyObj, Null}

WidgetResponses ==
  {Response(200, <<>>, d) : d \in WidgetDatas \cup {SyntaxErr}}
  \cup {Response(405, METHOD_NOT_ALLOWED, SyntaxErr), Response(500, <<>>, SyntaxErr),
        BrokenResponse(502)}

\* the responses of the runs in flight settle
Settle ==
  \E k \in 1..Len(submits) :
    \/ \E r \in WidgetResponses : WidgetFetchResolve(k, r)
    \/ WidgetFetchReject(k)
    \/ WidgetTextResolve(k)
    \/ WidgetJsonResolve(k)

NextWidget ==
  /\ \/ \E v \in InputTexts : Type(v)
     \/ Submit
     \/ Clear
     \/ Settle
  /\ UNCHANGED svars

SpecWidget == Init /\ [][NextWidget]_vars

\* every request gets its response or its failure
SpecWidgetFair == SpecWidget /\ WF_vars(Settle /\ UNCHANGED svars)

\* ---------------------------------------------------- words of the claims
Done(i) == pc[i] = "done"

\* a 429 or 5xx response
Transient(o) ==
  o.t = "response" /\ (o.status = 429 \/ (o.status >= 500 /\ o.status <= 599))

\* a non-2xx response that is neither 429 nor 5xx
Permanent(o) ==
  /\ o.t = "response"
  /\ ~(o.status >= 200 /\ o.status <= 299)
  /\ ~Transient(o)

\* a 2xx response
Success(o) == o.t = "response" /\ o.status >= 200 /\ o.status <= 299

Threw(o) == o.t = "throw"

\* the reply of the only response an invocation has sent
ReplyOf(i) == sent[i][1].body.o["reply"].s

\* a 200 JSON response with a reply
IsReply200(s) ==
  /\ s.status = 200
  /\ s.json
  /\ s.body.t = "object"
  /\ "reply" \in DOMAIN s.body.o

\* C1: when every upstream attempt returns 429 or 5xx and the budget of 2
\* retries is used up, the handler has made exactly 3 upstream calls, the
\* last failing response is handed back for classification, and the reply
\* is the rate-limit message for 429 and the service-busy message for 5xx.
C1_ExhaustedTransientClassified ==
  \A i \in Invocations :
    (Done(i) /\ Len(outcomes[i]) > 0
       /\ \A k \in 1..Len(outcomes[i]) : Transient(outcomes[i][k]))
    => LET last == outcomes[i][Len(outcomes[i])] IN
       /\ Len(calls[i]) = 3
       /\ resp[i] = last
       /\ Len(sent[i]) = 1
       /\ IsReply200(sent[i][1])
       /\ ReplyOf(i) = IF last.status = 429 THEN RATE_LIMITED ELSE SERVICE_BUSY

\* C2: an upstream response with a non-2xx status other than 429 and 5xx is
\* terminal: no sleep and no further call follows it, a first response of
\* this kind means exactly one upstream call and no sleep at all, and the
\* reply is 200 with the classification of the status (the authentication
\* message for 401).
C2_PermanentStatusNotRetried ==
  \A i \in Invocations :
    \A k \in 1..Len(outcomes[i]) :
      Permanent(outcomes[i][k])
      => LET o == outcomes[i][k] IN
         /\ k = Len(outcomes[i])
         /\ Len(calls[i]) = k
         /\ Len(sleeps[i]) = k - 1
         /\ k = 1 => (Len(calls[i]) = 1 /\ sleeps[i] = <<>>)
         /\ pc[i] \in {"text", "done"}
         /\ Done(i) =>
              /\ Len(sent[i]) = 1
              /\ IsReply200(sent[i][1])
              /\ ReplyOf(i) = friendlyError(o.status, o.text)
              /\ o.status = 401 => ReplyOf(i) = AUTH_ERROR

\* C2, amended: an upstream response with a non-2xx status other than 429
\* and 5xx is terminal: no sleep and no further call follows it, and a first
\* response of this kind means exactly one upstream call and no sleep at all;
\* the reply is 200 with the classification of the status (the
\* authentication message for 401) when the body of the response can be
\* read, and 200 with the generic server-error reply when reading it fails.
C2_PermanentStatusClassifiedWhenRead ==
  \A i \in Invocations :
    \A k \in 1..Len(outcomes[i]) :
      Permanent(outcomes[i][k])
      => LET o == outcomes[i][k] IN
         /\ k = Len(outcomes[i])
         /\ Len(calls[i]) = k
         /\ Len(sleeps[i]) = k - 1
         /\ k = 1 => (Len(calls[i]) = 1 /\ sleeps[i] = <<>>)
         /\ pc[i] \in {"text", "done"}
         /\ Done(i) =>
              /\ Len(sent[i]) = 1
              /\ IsReply200(sent[i][1])
              /\ ~o.bodyFails =>
                   /\ ReplyOf(i) = friendlyError(o.status, o.text)
                   /\ o.status = 401 => ReplyOf(i) = AUTH_ERROR
              /\ o.bodyFails => ReplyOf(i) = SERVER_ERROR

C2_Witness ==
  \E i \in Invocations :
    /\ Done(i)
    /\ Len(outcomes[i]) = 1
    /\ Permanent(outcomes[i][1])
    /\ outcomes[i][1].status = 401
    /\ ~outcomes[i][1].bodyFails
    /\ Len(calls[i]) = 1
    /\ sleeps[i] = <<>>
    /\ ReplyOf(i) = AUTH_ERROR

\* the parsed body of a successful response carries a reply text: a string
\* content with something other than whitespace in it
HasReplyText(data) ==
  /\ data.t = "object" /\ "choices" \in DOMAIN data.o
  /\ data.o["choices"].t = "array" /\ Len(data.o["choices"].a) > 0
  /\ LET choice == data.o["choices"].a[1] IN
     /\ choice.t = "object" /\ "message" \in DOMAIN choice.o
     /\ choice.o["message"].t = "object"
     /\ "content" \in DOMAIN choice.o["message"].o
     /\ LET content == choice.o["message"].o["content"] IN
        /\ content.t = "string"
        /\ \E j \in 1..Len(content.s) : content.s[j] \notin WhiteSpace

ReplyTextOf(data) == data.o["choices"].a[1].o["message"].o["content"].s

\* t is s without its leading and trailing whitespace
IsTrimOf(t, s) ==
  \E lead \in 0..(Len(s) - Len(t)) :
    /\ \A j \in 1..Len(t) : t[j] = s[lead + j]
    /\ \A j \in 1..Len(s) : (j <= lead \/ j > lead + Len(t)) => s[j] \in WhiteSpace
    /\ Len(t) > 0 => (t[1] \notin WhiteSpace /\ t[Len(t)] \notin WhiteSpace)

RECURSIVE Total(_)
Total(s) == IF s = <<>> THEN 0 ELSE s[1] + Total(Tail(s))

\* C3: when the first k upstream attempts (k = 1 or 2) return 429 or 5xx and
\* attempt k+1 returns a 2xx response with a reply text, the handler answers
\* 200 with that reply text and the usage of that response, after exactly
\* k+1 upstream calls and the sleeps 600 ms, then 1200 ms.
C3_RetryThenSuccess ==
  \A i \in Invocations :
    \A k \in 1..2 :
      (/\ Done(i)
       /\ Len(outcomes[i]) = k + 1
       /\ \A j \in 1..k : Transient(outcomes[i][j])
       /\ Success(outcomes[i][k + 1])
       /\ outcomes[i][k + 1].json.t # "SyntaxError"
       /\ HasReplyText(outcomes[i][k + 1].json))
      => LET data == outcomes[i][k + 1].json IN
         /\ Len(sent[i]) = 1
         /\ IsReply200(sent[i][1])
         /\ IsTrimOf(ReplyOf(i), ReplyTextOf(data))
         /\ "usage" \in DOMAIN sent[i][1].body.o
         /\ ("usage" \in DOMAIN data.o /\ data.o["usage"].t = "object")
              => sent[i][1].body.o["usage"] = data.o["usage"]
         /\ "usage" \notin DOMAIN data.o => sent[i][1].body.o["usage"] = Null
         /\ Len(calls[i]) = k + 1
         /\ sleeps[i] = IF k = 1 THEN <<600>> ELSE <<600, 1200>>
         /\ Total(sleeps[i]) = 600 * (2^k - 1)

C3_Witness ==
  \E i \in Invocations :
    /\ Done(i)
    /\ Len(outcomes[i]) = 3
    /\ outcomes[i][1].t = "response" /\ outcomes[i][1].status = 429
    /\ outcomes[i][2].t = "response" /\ outcomes[i][2].status = 500
    /\ Success(outcomes[i][3])
    /\ outcomes[i][3].json = CompletionUsage(Str(Pad(3) \o REPLY_TEXT \o Pad(5)), USAGE)
    /\ ReplyOf(i) = REPLY_TEXT
    /\ sent[i][1].body.o["usage"] = USAGE
    /\ sleeps[i] = <<600, 1200>>

\* C4: when every upstream attempt throws, each failure is followed by the
\* doubling backoff (600, 1200, 2400 ms), exactly 3 upstream calls are made,
\* the last network exception is the one thrown out of fetchWithRetry, and
\* the handler answers 200 with "Server error. Please try again.".
C4_NetworkFailuresExhaust ==
  \A i \in Invocations :
    (Len(outcomes[i]) > 0 /\ \A k \in 1..Len(outcomes[i]) : Threw(outcomes[i][k]))
    => /\ pc[i] \in {"wait", "fetch", "done"}
       /\ Len(calls[i]) <= 3
       /\ pc[i] # "fetch" => Len(sleeps[i]) = Len(outcomes[i])
       /\ \A k \in 1..Len(sleeps[i]) : sleeps[i][k] = 600 * 2^(k - 1)
       /\ Done(i) =>
            /\ Len(calls[i]) = 3
            /\ Len(outcomes[i]) = 3
            /\ sleeps[i] = <<600, 1200, 2400>>
            /\ thrown[i] = <<outcomes[i][3].err>>
            /\ sent[i] = <<JsonReply(SERVER_ERROR)>>

C4_Witness ==
  \E i \in Invocations :
    /\ Done(i)
    /\ Len(outcomes[i]) = 3
    /\ \A k \in 1..3 : Threw(outcomes[i][k])
    /\ outcomes[i][1].err # outcomes[i][3].err
    /\ thrown[i] = <<outcomes[i][3].err>>
    /\ ReplyOf(i) = SERVER_ERROR

\* C5: the handler sends exactly one response, whatever the request and the
\* upstream outcomes: none while it is still running, one when it is done;
\* for a POST it is 200 with a JSON body whose reply is a non-empty string,
\* and a non-POST method is the only case answered with another status.
C5_OneResponseAlways200 ==
  \A i \in Invocations :
    /\ Len(sent[i]) = (IF Done(i) THEN 1 ELSE 0)
    /\ Done(i) =>
         IF req[i].method = "POST"
         THEN /\ IsReply200(sent[i][1])
              /\ sent[i][1].body.o["reply"].t = "string"
              /\ Len(ReplyOf(i)) > 0
         ELSE sent[i][1].status # 200

C5_Witness ==
  \E i \in Invocations :
    /\ Done(i)
    /\ Len(outcomes[i]) = 3
    /\ Threw(outcomes[i][1])
    /\ Transient(outcomes[i][2])
    /\ Success(outcomes[i][3])
    /\ outcomes[i][3].json.t = "SyntaxError"
    /\ sent[i][1].status = 200
    /\ Len(ReplyOf(i)) > 0

\* the message of a request body, undefined when the body has none
RequestMessage(body) ==
  IF body.t = "object" /\ "message" \in DOMAIN body.o THEN body.o["message"]
  ELSE Undefined

\* C6: a POST request whose message is absent, null or not a string is
\* answered 200 with "Please type your job details to get an estimate." and
\* no upstream call is made for it.
C6_InvalidMessageGuidance ==
  \A i \in Invocations :
    (req[i].t = "request" /\ req[i].method = "POST"
       /\ RequestMessage(req[i].body).t # "string")
    => /\ Done(i)
       /\ sent[i] = <<JsonReply(GUIDANCE)>>
       /\ calls[i] = <<>>
       /\ outcomes[i] = <<>>

C6_Witness ==
  \E i \in Invocations :
    /\ Done(i)
    /\ req[i].method = "POST"
    /\ req[i].body = Obj1("message", Num(5))
    /\ ReplyOf(i) = GUIDANCE
    /\ calls[i] = <<>>

\* C7: a request whose method is not POST is answered 405 with the header
\* Allow: POST, whatever its body; no upstream call is made and nothing
\* sleeps.
C7_MethodNotAllowed ==
  \A i \in Invocations :
    (req[i].t = "request" /\ req[i].method # "POST")
    => /\ Done(i)
       /\ Len(sent[i]) = 1
       /\ sent[i][1].status = 405
       /\ <<"Allow", "POST">> \in sent[i][1].headers
       /\ calls[i] = <<>>
       /\ sleeps[i] = <<>>

C7_Witness ==
  \E i \in Invocations :
    /\ Done(i)
    /\ req[i].method = "GET"
    /\ RequestMessage(req[i].body) = Str(Core(2))
    /\ sent[i][1].status = 405
    /\ calls[i] = <<>>

\* the user-message content of an upstream call
UserContent(call) == call.body.messages[2].content

\* c is the first MAX_INPUT_CHARS characters of the message s once its
\* leading and trailing whitespace is removed
IsTruncatedTrim(c, s) ==
  LET lead == Cardinality({j \in 1..Len(s) : \A h \in 1..j : s[h] \in WhiteSpace})
      trail == Cardinality({j \in 1..Len(s) : \A h \in j..Len(s) : s[h] \in WhiteSpace})
      len == IF lead = Len(s) THEN 0 ELSE Len(s) - lead - trail
  IN /\ Len(c) = (IF len < 4000 THEN len ELSE 4000)
     /\ \A j \in 1..Len(c) : c[j] = s[lead + j]

\* C8: in every upstream call the user-message content is the trimmed
\* request message cut to its first 4000 characters: it is never longer than
\* MAX_INPUT_CHARS, it is the whole trimmed message when that has at most
\* 4000 characters, and every retry sends the payload of the first call.
C8_ContentTrimmedTruncated ==
  \A i \in Invocations :
    \A k \in 1..Len(calls[i]) :
      /\ Len(UserContent(calls[i][k])) <= MAX_INPUT_CHARS
      /\ IsTruncatedTrim(UserContent(calls[i][k]), RequestMessage(req[i].body).s)
      /\ calls[i][k] = calls[i][1]

C8_Witness ==
  \E i \in Invocations :
    /\ Len(calls[i]) = 3
    /\ RequestMessage(req[i].body).s = Pad(1) \o Core(MAX_INPUT_CHARS + 1) \o Pad(1)
    /\ Len(UserContent(calls[i][3])) = MAX_INPUT_CHARS
    /\ calls[i][3] = calls[i][1]

\* C9: an upstream call is made only for a non-empty user message: the
\* user-message content of every upstream request is a non-empty string, and
\* a request whose message is empty, or empty once trimmed, is answered with
\* the guidance reply without any upstream call.
C9_NoCallForEmptyMessage ==
  \A i \in Invocations :
    /\ \A k \in 1..Len(calls[i]) : Len(UserContent(calls[i][k])) > 0
    /\ (req[i].t = "request" /\ req[i].method = "POST"
          /\ RequestMessage(req[i].body).t = "string"
          /\ \A j \in 1..Len(RequestMessage(req[i].body).s) :
               RequestMessage(req[i].body).s[j] \in WhiteSpace)
       => (Done(i) /\ sent[i] = <<JsonReply(GUIDANCE)>> /\ calls[i] = <<>>)

\* the content the claim speaks of: what the parsed body holds at
\* choices[0].message.content, undefined when any part of that path is missing
ClaimContent(data) ==
  IF /\ data.t = "object" /\ "choices" \in DOMAIN data.o
     /\ data.o["choices"].t = "array" /\ Len(data.o["choices"].a) > 0
     /\ data.o["choices"].a[1].t = "object"
     /\ "message" \in DOMAIN data.o["choices"].a[1].o
     /\ data.o["choices"].a[1].o["message"].t = "object"
     /\ "content" \in DOMAIN data.o["choices"].a[1].o["message"].o
  THEN data.o["choices"].a[1].o["message"].o["content"]
  ELSE Undefined

\* no choices, empty choices, missing message or content, or a content that
\* is empty or whitespace-only
LacksReplyText(data) ==
  LET content == ClaimContent(data) IN
    \/ content.t \in {"undefined", "null"}
    \/ content.t = "string" /\ \A j \in 1..Len(content.s) : content.s[j] \in WhiteSpace

\* C10: a successful (2xx) upstream response whose parsed body has no reply
\* text (no choices, empty choices, missing message or content, or a content
\* that is empty or only whitespace) is answered 200 with "No reply from
\* model.", and nothing is thrown into the handler's catch block.
C10_FallbackReply ==
  \A i \in Invocations :
    (/\ Done(i)
     /\ Len(outcomes[i]) > 0
     /\ Success(outcomes[i][Len(outcomes[i])])
     /\ outcomes[i][Len(outcomes[i])].json.t # "SyntaxError"
     /\ LacksReplyText(outcomes[i][Len(outcomes[i])].json))
    => /\ Len(sent[i]) = 1
       /\ IsReply200(sent[i][1])
       /\ ReplyOf(i) = NO_REPLY
       /\ thrown[i] = <<>>

C10_Witness ==
  \E i \in Invocations :
    /\ Done(i)
    /\ Len(outcomes[i]) = 2
    /\ Success(outcomes[i][2])
    /\ outcomes[i][2].json = Completion(Str(Pad(8)))
    /\ ReplyOf(i) = NO_REPLY
    /\ thrown[i] = <<>>

\* C11: every backoff sleep is followed by another upstream call: an
\* invocation that has responded has slept once less than it has called the
\* upstream, its i-th sleep lasts 600 * 2^(i-1) ms, and its sleeps add up to
\* at most 600 + 1200 = 1800 ms.
C11_SleepOnlyBeforeRetry ==
  \A i \in Invocations :
    /\ \A k \in 1..Len(sleeps[i]) : sleeps[i][k] = 600 * 2^(k - 1)
    /\ Total(sleeps[i]) <= 1800
    /\ (Done(i) /\ Len(calls[i]) > 0) => Len(sleeps[i]) = Len(calls[i]) - 1

\* the invocation has entered fetchWithRetry
InRetryLoop(i) == opts[i].t = "opts"

\* C12: the retry loop terminates whatever the upstream does: attempt starts
\* at 0, only increases and never exceeds tries + 1 = 3, an invocation that
\* has entered the loop has made at least 1 and at most 3 upstream calls,
\* and it always comes to respond.
C12_RetryLoopTerminates ==
  /\ [](\A i \in Invocations :
          /\ attempt[i] >= 0 /\ attempt[i] <= tries + 1 /\ attempt[i] <= 3
          /\ (pc[i] = "fetch" /\ outcomes[i] = <<>>) => attempt[i] = 0
          /\ Len(calls[i]) <= 3
          /\ InRetryLoop(i) => (Len(calls[i]) >= 1 /\ Len(calls[i]) <= tries + 1)
          /\ ~InRetryLoop(i) => calls[i] = <<>>)
  /\ [][\A i \in Invocations : attempt'[i] >= attempt[i]]_vars
  /\ \A i \in Sequential : (pc[i] = "fetch") ~> Done(i)

C12_Witness ==
  \E i \in Invocations :
    /\ Done(i)
    /\ InRetryLoop(i)
    /\ Len(calls[i]) = 3
    /\ attempt[i] = 3
    /\ Len(outcomes[i]) = 3
    /\ Threw(outcomes[i][1])
    /\ Transient(outcomes[i][2])
    /\ Threw(outcomes[i][3])

\* statuses the classification is checked on
ClassifiedStatuses == {300, 400, 401, 403, 404, 428, 429, 430, 499, 500, 503, 599, 600}

\* friendlyError on the statuses and bodies above
Classifies ==
  \A s \in ClassifiedStatuses, x \in ErrorTexts :
     /\ friendlyError(s, x) = AUTH_ERROR <=> s = 401
     /\ friendlyError(s, x) = RATE_LIMITED <=> s = 429
     /\ friendlyError(s, x) = SERVICE_BUSY <=> s >= 500
     /\ (s \notin {401, 429} /\ s < 500) =>
          \E n \in 0..200 :
            /\ n <= Len(x) /\ (n = 200 \/ n = Len(x))
            /\ friendlyError(s, x) =
                 UPSTREAM_PREFIX \o <<Digits[(s \div 100) + 1], Digits[((s \div 10) % 10) + 1],
                                      Digits[(s % 10) + 1]>>
                 \o UPSTREAM_SEP \o [j \in 1..n |-> x[j]]

\* C13: friendlyError gives the authentication message iff the status is
\* 401, the rate-limit message iff it is 429, the service-busy message iff
\* it is at least 500, and otherwise "Upstream error (status): " followed by
\* at most the first 200 characters of the body; and whenever the final
\* upstream response of an invocation is non-2xx, the reply sent is
\* friendlyError of that response's status and body (a response whose body
\* could not be read has no body to classify and is left out).
C13_FriendlyErrorClassifies ==
  /\ Classifies
  /\ \A i \in Invocations :
       (/\ Done(i)
        /\ Len(outcomes[i]) > 0
        /\ outcomes[i][Len(outcomes[i])].t = "response"
        /\ ~Success(outcomes[i][Len(outcomes[i])])
        /\ ~outcomes[i][Len(outcomes[i])].bodyFails)
       => /\ Len(sent[i]) = 1
          /\ IsReply200(sent[i][1])
          /\ ReplyOf(i) = friendlyError(outcomes[i][Len(outcomes[i])].status,
                                        outcomes[i][Len(outcomes[i])].text)

\* C14: interleaved invocations are independent: each has its own attempt
\* counter, 0 at its first fetch and equal to the number of its own failed
\* attempts; a step of one invocation changes nothing another invocation
\* holds; and two invocations with the same request and the same upstream
\* outcomes at the same position have made the same calls and sleeps and
\* sent the same response.
C14_InvocationsIndependent ==
  /\ [](\A i \in Invocations :
          /\ pc[i] = "fetch" => attempt[i] = Len(outcomes[i])
          /\ pc[i] = "wait" => attempt[i] = Len(outcomes[i]) - 1
          /\ \A j \in Invocations :
               (req[i] = req[j] /\ outcomes[i] = outcomes[j] /\ pc[i] = pc[j])
               => /\ calls[i] = calls[j]
                  /\ sleeps[i] = sleeps[j]
                  /\ sent[i] = sent[j]
                  /\ attempt[i] = attempt[j])
  /\ [][\E i \in Invocations :
          \A j \in Invocations \ {i} :
            /\ pc'[j] = pc[j] /\ attempt'[j] = attempt[j]
            /\ calls'[j] = calls[j] /\ sleeps'[j] = sleeps[j]
            /\ sent'[j] = sent[j] /\ outcomes'[j] = outcomes[j]
            /\ lastErr'[j] = lastErr[j] /\ thrown'[j] = thrown[j]]_vars

C14_Witness ==
  \E i \in Invocations :
    \E j \in Invocations \ {i} :
      /\ pc[i] = "wait" /\ Len(sleeps[i]) = 2 /\ attempt[i] = 1
      /\ pc[j] = "fetch" /\ attempt[j] = 0 /\ outcomes[j] = <<>>
      /\ req[i] = req[j]

\* C15: the widget has at most one request outstanding at any time, and a
\* submit event that happens while a request is in flight sends no second
\* request, however submits, clear clicks and responses interleave.
C15_OneRequestOutstanding ==
  /\ [](InFlight <= 1)
  /\ [][InFlight > 0 => Len(submits') = Len(submits)]_vars

C15_Witness ==
  /\ InFlight = 1
  /\ \E b \in 1..Len(blanks) : blanks[b] = 1
  /\ clears > 0

\* C16: the input is disabled from the moment a non-empty submit starts its
\* request until the request completes, every completion (reply, non-200
\* response, network or parse failure) enables it again, and a submit of an
\* empty or whitespace-only text sends nothing and leaves the disabled state
\* and the conversation as they are.
C16_InputLockedWhileInFlight ==
  /\ [](InFlight > 0 => inputDisabled)
  /\ [][Len(submits') > Len(submits) => (inputDisabled' /\ InFlight' > 0)]_vars
  /\ [][InFlight' < InFlight => ~inputDisabled']_vars
  /\ [][blanks' # blanks =>
          (/\ Len(Trim(inputValue)) = 0
           /\ submits' = submits
           /\ inputDisabled' = inputDisabled
           /\ dom' = dom)]_vars

C16_Witness ==
  /\ Len(submits) = 2
  /\ submits[1].pc = "done" /\ submits[1].r.t = "response" /\ submits[1].r.status = 405
  /\ submits[2].pc = "done" /\ submits[2].r.t = "none"
  /\ ~inputDisabled
  /\ Len(blanks) > 0
  /\ inputValue = <<" ", "U+00A0">>

\* the typing rows among the children of the box
VisibleTyping == {n \in 1..Len(dom.box) : dom.rows[dom.box[n]].typing}

\* text is what run k of the submit handler may put in place of its typing
\* row: the reply (or 'No reply.' when the body has none), the "Error
\* (status): ..." string of a non-200 response, or the network-error string
ReplacementOf(k, text) ==
  LET r == submits[k].r IN
  \/ text = NETWORK_ERROR
  \/ /\ r.t = "response" /\ ~(r.status >= 200 /\ r.status <= 299)
     /\ Len(text) >= Len(ERROR_PREFIX)
     /\ SubSeq(text, 1, Len(ERROR_PREFIX)) = ERROR_PREFIX
  \/ /\ r.t = "response" /\ r.status >= 200 /\ r.status <= 299
     /\ r.json.t = "object"
     /\ IF "reply" \in DOMAIN r.json.o /\ Truthy(r.json.o["reply"])
        THEN ToText(r.json.o["reply"]) = Str(text)
        ELSE text = NO_REPLY_WIDGET

\* C17: every typing row a submit creates is replaced exactly once, and in
\* the end: by the reply, the "Error (status): ..." string or the
\* network-error string; the box never shows more than one typing row and
\* shows none when no request is in flight; after a click on clear the box
\* holds exactly the seeded greeting, also once the reply of a request that
\* was in flight at the click has arrived.
C17_TypingRowReplacedOnce ==
  /\ [](\A k \in 1..Len(submits) :
          LET row == dom.rows[submits[k].thinking] IN
          IF submits[k].pc = "done"
          THEN row.replaced = 1 /\ ~row.typing /\ ReplacementOf(k, row.text)
          ELSE row.replaced = 0 /\ row.typing)
  /\ [](\A n \in 1..Len(dom.rows) :
          (\A k \in 1..Len(submits) : submits[k].thinking # n)
          => (dom.rows[n].replaced = 0 /\ ~dom.rows[n].typing))
  /\ [](Cardinality(VisibleTyping) <= 1)
  /\ [](InFlight = 0 => VisibleTyping = {})
  /\ [](cleared => (Len(dom.box) = 1
                    /\ dom.rows[dom.box[1]].role = "bot"
                    /\ ~dom.rows[dom.box[1]].typing
                    /\ dom.rows[dom.box[1]].text = GREETING))
  /\ \A k \in 1..MaxSubmits :
       (Len(submits) >= k) ~> (Len(submits) >= k /\ submits[k].pc = "done")

C17_Witness ==
  /\ cleared
  /\ Len(submits) = 1
  /\ submits[1].pc = "done"
  /\ dom.rows[submits[1].thinking].replaced = 1
  /\ dom.rows[submits[1].thinking].text = REPLY_TEXT
  /\ \A n \in 1..Len(dom.box) : dom.box[n] # submits[1].thinking
  /\ Len(dom.box) = 1

====
